---------------------------- MODULE Spec2Model ----------------------------
(***************************************************************************)
(* State-machine model of the bladeRF radio front-end adapter               *)
(* (lib/src/phy/rf/rf_blade_imp.c): the device session, the per-direction   *)
(* stream-enabled flags, the hardware modules behind the transport, the     *)
(* process-wide fault-handler slot, and the open / close / start / stop /   *)
(* receive / transmit operations.                                           *)
(*                                                                          *)
(* Every exported function is one action that models the whole function.    *)
(* The transport (libbladeRF) is an external collaborator: the status it    *)
(* answers to each request is chosen nondeterministically.                  *)
(***************************************************************************)
EXTENDS Integers, Sequences, FiniteSets, TLC

VARIABLES
  sess,                     \* the session as its caller sees it: "none" | "open" |
                            \* "failed" (open failed) | "closed" | "crashed"
  h,                        \* the out-parameter *h of open: "NULL" | "handler"
  heap,                     \* the malloc'ed rf_blade_handler_t: "none" | "allocated" | "freed"
  dev,                      \* the bladeRF device handle: "none" | "open" | "closed"
  handler,                  \* the fields of rf_blade_handler_t
  module,                   \* hardware: which RF modules the device has enabled
  blade_error_handler,      \* static fault callback slot ("NULL" when empty)
  blade_error_handler_arg,  \* static fault callback context
  call,                     \* the latest API call: inputs, transport-call log, result
  threads                   \* two caller threads inside the API: the statements each
                            \* has left to run, and what each has read and written

vars == <<sess, h, heap, dev, handler, module,
          blade_error_handler, blade_error_handler_arg, call, threads>>

---------------------------------------------------------------------------
(* Program constants *)

num_buffers == 256
num_transfers == 64
timeout_ms == 1000

SRSRAN_SUCCESS == 0
SRSRAN_ERROR == -1

\* libbladeRF status code tested by the transmit path
BLADERF_ERR_TIME_PAST == -14

\* libbladeRF metadata status: the set of status bits that are set
BLADERF_META_STATUS_OVERRUN == {"OVERRUN"}
BLADERF_META_STATUS_UNDERRUN == {"UNDERRUN"}
MetaStatuses == SUBSET {"OVERRUN", "UNDERRUN"}

\* Non-zero status codes the transport may answer to a request
\* (BLADERF_ERR_UNEXPECTED, BLADERF_ERR_TIMEOUT).
TransportErrors == {-1, -6}

Channels == {"BLADERF_RX_X1", "BLADERF_RX_X2", "BLADERF_TX_X1", "BLADERF_TX_X2"}

---------------------------------------------------------------------------
(* Bounds of the checked instance *)

\* open is called with nof_channels in 0..MaxNofChannels
MaxNofChannels == 3
\* the nof_tx_channels / nof_rx_channels options take values 0..MaxChannelOpt
\* (0 is also what an absent option leaves in the field)
MaxChannelOpt == 2
\* sample counts are drawn at distance 0..Slack around each capacity bound
Slack == 1

---------------------------------------------------------------------------
(* Fixed-width C arithmetic.                                               *)
(* An unsigned C integer of 16*k bits is a sequence of k limbs of 16 bits, *)
(* least significant first: uint32_t has 2 limbs, size_t has 4.            *)

Limb == 256 * 256

\* the uint32_t with value hi * 2^16 + lo
U32(hi, lo) == <<lo, hi>>

\* the uint32_t holding a small natural number
ToU32(n) == <<n % Limb, (n \div Limb) % Limb>>

\* an int (two's complement, 32 bits) converted to uint32_t
IntToU32(n) == <<n % Limb, (n \div Limb) % Limb>>

\* a uint32_t converted to int (implementation-defined: two's complement)
U32ToInt(x) == (IF x[2] >= Limb \div 2 THEN x[2] - Limb ELSE x[2]) * Limb + x[1]

\* zero extension (unsigned -> wider unsigned)
ZeroExt(x, k) == x \o [i \in 1..(k - Len(x)) |-> 0]

\* sign extension (int -> size_t)
SignExt(x, k) ==
  x \o [i \in 1..(k - Len(x)) |-> IF x[Len(x)] >= Limb \div 2 THEN Limb - 1 ELSE 0]

\* x * k modulo 2^(16 * Len(x)), for a small factor k and a uint32_t or a
\* size_t x: limb by limb, with carry
Mul(x, k) ==
  LET p1 == x[1] * k
      p2 == x[2] * k + p1 \div Limb
  IN  IF Len(x) = 2 THEN <<p1 % Limb, p2 % Limb>>
      ELSE LET p3 == x[3] * k + p2 \div Limb
               p4 == x[4] * k + p3 \div Limb
           IN  <<p1 % Limb, p2 % Limb, p3 % Limb, p4 % Limb>>

\* x > y for two unsigned values of the same width
Gt(x, y) ==
  \E i \in 1..Len(x) : x[i] > y[i] /\ \A j \in (i + 1)..Len(x) : x[j] = y[j]

\* x / k for a uint32_t x and a small k > 0: long division
Div(x, k) ==
  LET hi == x[2] \div k
      lo == ((x[2] % k) * Limb + x[1]) \div k
  IN  <<lo, hi>>

\* sizeof(int16_t)
SizeofInt16 == 2
\* CONVERT_BUFFER_SIZE as a size_t: 128 * 1024 * sizeof(int16_t) = 4 * 2^16
CONVERT_BUFFER_SIZE == <<(128 * 1024 * SizeofInt16) % Limb,
                         (128 * 1024 * SizeofInt16) \div Limb, 0, 0>>


---------------------------------------------------------------------------
(* The transport (libbladeRF), seen from the adapter *)

Status == {0} \cup TransportErrors

\* The statuses the transport answers to the requests named in keys. A
\* function returns at the first request that fails, so one failing request
\* per script covers every observable behaviour of the transport.
Answers(keys) ==
  {[k \in keys |-> 0]} \cup
  {[k \in keys |-> IF k = f THEN c ELSE 0] : f \in keys, c \in TransportErrors}

\* one request sent to the transport, as recorded in call.log
Request(fn, ch, arg, status) == [fn |-> fn, ch |-> ch, arg |-> arg, status |-> status]

\* bladerf_enable_module(dev, ch, enable): the hardware follows the request
\* when the transport accepts it
bladerf_enable_module(mod, ch, enable, status) ==
  IF status = 0 THEN [mod EXCEPT ![ch] = enable] ELSE mod

RECURSIVE enable_modules(_, _, _, _)
\* bladerf_enable_module on the channels chs, in order, returning at the
\* first request that fails
enable_modules(chs, enable, mod, ans) ==
  IF chs = <<>> THEN [module |-> mod, log |-> <<>>, status |-> 0]
  ELSE LET ch == Head(chs)
           st == ans[ch]
           rq == Request("bladerf_enable_module", ch, <<enable>>, st)
       IN  IF st # 0 THEN [module |-> mod, log |-> <<rq>>, status |-> st]
           ELSE LET r == enable_modules(Tail(chs), enable,
                                        bladerf_enable_module(mod, ch, enable, st), ans)
                IN  [r EXCEPT !.log = <<rq>> \o @]

---------------------------------------------------------------------------
(* Stream lifecycle *)

\* the channel layout handed to the sync interface
tx_layout(hd) == IF hd.nof_tx_channels = 1 THEN "BLADERF_TX_X1" ELSE "BLADERF_TX_X2"
rx_layout(hd) == IF hd.nof_rx_channels = 1 THEN "BLADERF_RX_X1" ELSE "BLADERF_RX_X2"

\* the modules a start enables, in order
tx_start_order(hd) ==
  <<"BLADERF_TX_X1">> \o (IF hd.nof_tx_channels > 1 THEN <<"BLADERF_TX_X2">> ELSE <<>>)
\* (mutant of rx_start_order: channel 2 is enabled before channel 1)
rx_start_order_2_first(hd) ==
  (IF hd.nof_rx_channels > 1 THEN <<"BLADERF_RX_X2">> ELSE <<>>) \o <<"BLADERF_RX_X1">>

rx_start_order(hd) ==
  <<"BLADERF_RX_X1">> \o (IF hd.nof_rx_channels > 1 THEN <<"BLADERF_RX_X2">> ELSE <<>>)

\* (mutant of stop_order: TX modules before RX modules)
stop_order_tx_first(hd) ==
  <<"BLADERF_TX_X1">> \o (IF hd.nof_tx_channels > 1 THEN <<"BLADERF_TX_X2">> ELSE <<>>) \o
  <<"BLADERF_RX_X1">> \o (IF hd.nof_rx_channels > 1 THEN <<"BLADERF_RX_X2">> ELSE <<>>)

\* the modules stop disables, in order
stop_order(hd) ==
  <<"BLADERF_RX_X1">> \o (IF hd.nof_rx_channels > 1 THEN <<"BLADERF_RX_X2">> ELSE <<>>) \o
  <<"BLADERF_TX_X1">> \o (IF hd.nof_tx_channels > 1 THEN <<"BLADERF_TX_X2">> ELSE <<>>)

\* bladerf_sync_config(dev, layout, format, num_buffers, buffer_size,
\* num_transfers, timeout_ms); buffer_size depends on the sample rate only
\* and is not modelled
sync_config(layout, hd, status) ==
  Request("bladerf_sync_config", layout,
          <<hd.format, num_buffers, num_transfers, timeout_ms>>, status)

\* (mutant of rf_blade_start_tx_stream: the flag is set as soon as the sync
\* interface is configured)
start_tx_flag_early(hd, mod, ans) ==
  LET st  == ans["bladerf_sync_config"]
      cfg == sync_config(tx_layout(hd), hd, st)
      en  == enable_modules(tx_start_order(hd), TRUE, mod, ans)
  IN  IF st # 0
      THEN [handler |-> hd, module |-> mod, ret |-> st, log |-> <<cfg>>]
      ELSE [handler |-> [hd EXCEPT !.tx_stream_enabled = TRUE],
            module |-> en.module, ret |-> en.status, log |-> <<cfg>> \o en.log]

\* rf_blade_start_tx_stream: result [handler, module, ret, log]
rf_blade_start_tx_stream(hd, mod, ans) ==
  LET st  == ans["bladerf_sync_config"]
      cfg == sync_config(tx_layout(hd), hd, st)
  IN  IF st # 0
      THEN [handler |-> hd, module |-> mod, ret |-> st, log |-> <<cfg>>]
      ELSE LET en == enable_modules(tx_start_order(hd), TRUE, mod, ans)
           IN  IF en.status # 0
               THEN [handler |-> hd, module |-> en.module, ret |-> en.status,
                     log |-> <<cfg>> \o en.log]
               ELSE [handler |-> [hd EXCEPT !.tx_stream_enabled = TRUE],
                     module |-> en.module, ret |-> 0, log |-> <<cfg>> \o en.log]

\* rf_blade_start_rx_stream: result [handler, module, ret, log]
rf_blade_start_rx_stream(hd, mod, ans) ==
  LET st  == ans["bladerf_sync_config"]
      cfg == sync_config(rx_layout(hd), hd, st)
  IN  IF st # 0
      THEN [handler |-> hd, module |-> mod, ret |-> st, log |-> <<cfg>>]
      ELSE LET en == enable_modules(rx_start_order(hd), TRUE, mod, ans)
           IN  IF en.status # 0
               THEN [handler |-> hd, module |-> en.module, ret |-> en.status,
                     log |-> <<cfg>> \o en.log]
               ELSE [handler |-> [hd EXCEPT !.rx_stream_enabled = TRUE],
                     module |-> en.module, ret |-> 0, log |-> <<cfg>> \o en.log]

\* (mutant of rf_blade_stop_rx_stream: a refused disable is not reported)
stop_hiding_refusal(hd, mod, ans) ==
  LET dis == enable_modules(stop_order(hd), FALSE, mod, ans)
  IN  IF dis.status # 0
      THEN [handler |-> hd, module |-> dis.module, ret |-> 0, log |-> dis.log]
      ELSE [handler |-> [hd EXCEPT !.rx_stream_enabled = FALSE,
                                  !.tx_stream_enabled = FALSE],
            module |-> dis.module, ret |-> 0, log |-> dis.log]

\* rf_blade_stop_rx_stream: result [handler, module, ret, log]
rf_blade_stop_rx_stream(hd, mod, ans) ==
  LET dis == enable_modules(stop_order(hd), FALSE, mod, ans)
  IN  IF dis.status # 0
      THEN [handler |-> hd, module |-> dis.module, ret |-> dis.status, log |-> dis.log]
      ELSE [handler |-> [hd EXCEPT !.rx_stream_enabled = FALSE,
                                  !.tx_stream_enabled = FALSE],
            module |-> dis.module, ret |-> 0, log |-> dis.log]

\* the requests whose answers a start / a stop may consult
StartKeys(order) == {"bladerf_sync_config"} \cup {order[i] : i \in 1..Len(order)}
StopKeys(order) == {order[i] : i \in 1..Len(order)}

---------------------------------------------------------------------------
(* Fault handler slot *)

\* (callback, context) pairs a caller registers
Registrations == {<<"NULL", "NULL">>, <<"cb1", "ctx1">>, <<"cb2", "ctx2">>}

\* (mutant of rf_blade_register_error_handler: a registration does not
\* replace an earlier one)
register_first_wins(new_handler, arg) ==
  IF blade_error_handler = "NULL" THEN <<new_handler, arg>>
  ELSE <<blade_error_handler, blade_error_handler_arg>>

\* rf_blade_register_error_handler: result <<blade_error_handler, blade_error_handler_arg>>
rf_blade_register_error_handler(new_handler, arg) == <<new_handler, arg>>

---------------------------------------------------------------------------
(* Timed streaming: transmit *)

\* line 627: 2 * nsamples * sample_size * nof_tx_channels > CONVERT_BUFFER_SIZE,
\* with int nsamples.  2 * nsamples is an int product; the result is then
\* converted to size_t.  When the int product overflows the behaviour is
\* undefined: a build either wraps it to 32 bits ("wrap") or carries the
\* exact value into the 64-bit product ("wide").
tx_twice(nsamples, build) ==
  IF build = "wrap" THEN SignExt(Mul(IntToU32(nsamples), 2), 4)
  ELSE Mul(SignExt(IntToU32(nsamples), 4), 2)
tx_overflows(nsamples) == tx_twice(nsamples, "wrap") # tx_twice(nsamples, "wide")
tx_exceeds(hd, nsamples, build) ==
  Gt(Mul(Mul(tx_twice(nsamples, build), hd.sample_size), hd.nof_tx_channels),
     CONVERT_BUFFER_SIZE)

\* (mutant of tx_write: the memset offset is counted in components, not in
\* bytes)
tx_write_offset_in_components(hd, nsamples, i, null) ==
  LET two  == Mul(IntToU32(nsamples), 2)
      el   == Mul(two, i)
      size == IF hd.buffer_format = "BLADERF_FORMAT_SC8_Q7" THEN 1 ELSE SizeofInt16
  IN  IF i \notin null
      THEN [ch |-> i,
            op |-> IF hd.buffer_format = "BLADERF_FORMAT_SC8_Q7"
                   THEN "srsran_vec_convert_fb" ELSE "srsran_vec_convert_fi",
            off |-> Mul(ZeroExt(el, 4), size),
            len |-> Mul(ZeroExt(two, 4), size)]
      ELSE [ch |-> i, op |-> "memset",
            off |-> ZeroExt(el, 4),
            len |-> Mul(SignExt(two, 4), hd.sample_size)]

\* lines 633-644: what the conversion loop writes into tx_buffer, channel by
\* channel: [ch, op, off, len] with offset and length in bytes (size_t)
tx_write(hd, nsamples, i, null) ==
  LET two  == Mul(IntToU32(nsamples), 2)            \* 2 * nsamples
      el   == Mul(two, i)                           \* 2 * nsamples * i (uint32_t)
      size == IF hd.buffer_format = "BLADERF_FORMAT_SC8_Q7" THEN 1 ELSE SizeofInt16
  IN  IF i \notin null
      THEN [ch |-> i,
            op |-> IF hd.buffer_format = "BLADERF_FORMAT_SC8_Q7"
                   THEN "srsran_vec_convert_fb" ELSE "srsran_vec_convert_fi",
            off |-> Mul(ZeroExt(el, 4), size),
            len |-> Mul(ZeroExt(two, 4), size)]
      ELSE [ch |-> i, op |-> "memset",
            off |-> Mul(ZeroExt(el, 4), hd.sample_size),
            len |-> Mul(SignExt(two, 4), hd.sample_size)]

tx_writes(hd, nsamples, null) ==
  [k \in 1..hd.nof_tx_channels |-> tx_write(hd, nsamples, k - 1, null)]

\* (mutant of tx_meta: the time specification is applied whether or not the
\* call starts a burst)
tx_meta_time_without_start(req) ==
  [flags |-> (IF ~req.has_time_spec
                THEN {"BLADERF_META_FLAG_TX_NOW"} ELSE {}) \cup
             (IF req.is_start_of_burst
                THEN {"BLADERF_META_FLAG_TX_BURST_START"} ELSE {}) \cup
             (IF req.is_end_of_burst
                THEN {"BLADERF_META_FLAG_TX_BURST_END"} ELSE {}),
   timestamp |-> IF req.has_time_spec THEN "srsran_timestamp_uint64" ELSE "0"]

\* lines 655-668: the metadata of the transfer
tx_meta(req) ==
  [flags |-> (IF req.is_start_of_burst /\ ~req.has_time_spec
                THEN {"BLADERF_META_FLAG_TX_NOW"} ELSE {}) \cup
             (IF req.is_start_of_burst
                THEN {"BLADERF_META_FLAG_TX_BURST_START"} ELSE {}) \cup
             (IF req.is_end_of_burst
                THEN {"BLADERF_META_FLAG_TX_BURST_END"} ELSE {}),
   timestamp |-> IF req.is_start_of_burst /\ req.has_time_spec
                 THEN "srsran_timestamp_uint64" ELSE "0"]

\* struct bladerf_metadata as the transport leaves it after a transfer (the
\* fields the callers read); all zero when no transfer was completed
Meta(status, actual_count) == [status |-> status, actual_count |-> actual_count]
NoMeta == Meta({}, <<0, 0>>)

\* the fault events a call dispatches: none when no handler is registered
dispatch(slot, type, opt) ==
  IF slot[1] # "NULL"
  THEN <<[handler |-> slot[1], arg |-> slot[2], type |-> type, opt |-> opt]>>
  ELSE <<>>

\* (mutant of lazy_start: the start is made whatever the flag says)
lazy_start_always(hd, mod, ans) == rf_blade_start_tx_stream(hd, mod, ans)

\* lines 623-625: the lazy start of transmit; result as of
\* rf_blade_start_tx_stream (its ret is not looked at by the caller)
lazy_start(hd, mod, ans) ==
  IF ~hd.tx_stream_enabled THEN rf_blade_start_tx_stream(hd, mod, ans)
  ELSE [handler |-> hd, module |-> mod, ret |-> 0, log |-> <<>>]

\* (mutant of tx_outcome: time-in-past is treated as any other refusal)
tx_outcome_late_is_fatal(slot, nsamples, status, meta_status) ==
  IF status # 0
  THEN [ret |-> status, events |-> <<>>]
  ELSE IF meta_status = BLADERF_META_STATUS_UNDERRUN
  THEN [ret |-> nsamples, events |-> dispatch(slot, "SRSRAN_RF_ERROR_UNDERFLOW", 0)]
  ELSE [ret |-> nsamples, events |-> <<>>]

\* (mutant of tx_outcome: every refusal is reported as a late burst)
tx_outcome_refusal_is_late(slot, nsamples, status, meta_status) ==
  IF status # 0
  THEN [ret |-> nsamples, events |-> dispatch(slot, "SRSRAN_RF_ERROR_LATE", 0)]
  ELSE IF meta_status = BLADERF_META_STATUS_UNDERRUN
  THEN [ret |-> nsamples, events |-> dispatch(slot, "SRSRAN_RF_ERROR_UNDERFLOW", 0)]
  ELSE [ret |-> nsamples, events |-> <<>>]

\* lines 673-692: what transmit makes of the status of bladerf_sync_tx and
\* of the metadata status: [ret, events]
tx_outcome(slot, nsamples, status, meta_status) ==
  IF status = BLADERF_ERR_TIME_PAST
  THEN [ret |-> nsamples, events |-> dispatch(slot, "SRSRAN_RF_ERROR_LATE", 0)]
  ELSE IF status # 0
  THEN [ret |-> status, events |-> <<>>]
  ELSE IF meta_status = BLADERF_META_STATUS_UNDERRUN
  THEN [ret |-> nsamples, events |-> dispatch(slot, "SRSRAN_RF_ERROR_UNDERFLOW", 0)]
  ELSE [ret |-> nsamples, events |-> <<>>]

\* rf_blade_send_timed_multi:
\* result [handler, module, ret, returns, log, events, writes, meta].
\* ans: the transport's answers (start: to the lazy start's requests;
\* interleave, sync_tx: statuses; meta_status: the status bits of the
\* transfer), build: what the build makes of an int overflow.
rf_blade_send_timed_multi(hd, mod, slot, req, ans, build) ==
  LET out(hd_, mod_, ret, log, events, writes, meta) ==
        [handler |-> hd_, module |-> mod_, ret |-> ret, returns |-> TRUE,
         log |-> log, events |-> events, writes |-> writes, meta |-> meta]
      st  == lazy_start(hd, mod, ans.start)
      hd1 == st.handler
      wr  == tx_writes(hd1, req.nsamples, req.null)
      count == Mul(IntToU32(req.nsamples), hd1.nof_tx_channels)
      il  == Request("bladerf_interleave_stream_buffer", tx_layout(hd1),
                     <<hd1.buffer_format, count>>, ans.interleave)
      tx  == Request("bladerf_sync_tx", "", <<count, tx_meta(req), timeout_ms>>, ans.sync_tx)
      res == tx_outcome(slot, req.nsamples, ans.sync_tx, ans.meta_status)
  IN  IF tx_exceeds(hd1, req.nsamples, build)
      THEN out(hd1, st.module, -1, st.log, <<>>, <<>>, NoMeta)
      ELSE IF ans.interleave # 0
      THEN out(hd1, st.module, -1, st.log \o <<il>>, <<>>, wr, NoMeta)
      ELSE out(hd1, st.module, res.ret, st.log \o <<il, tx>>, res.events, wr,
               IF ans.sync_tx = 0 THEN Meta(ans.meta_status, <<0, 0>>) ELSE NoMeta)

\* the transport's answers to a transmit's transfer requests: one failing
\* request, or the status bits of a transfer that succeeded
TxTransferAnswers ==
  {[interleave |-> c, sync_tx |-> 0, meta_status |-> {}] : c \in TransportErrors} \cup
  {[interleave |-> 0, sync_tx |-> c, meta_status |-> {}] :
     c \in TransportErrors \cup {BLADERF_ERR_TIME_PAST}} \cup
  {[interleave |-> 0, sync_tx |-> 0, meta_status |-> m] : m \in MetaStatuses}

---------------------------------------------------------------------------
(* Timed streaming: receive *)

\* line 551: 2 * nsamples * sample_size * nof_rx_channels > CONVERT_BUFFER_SIZE,
\* with uint32_t nsamples: 2 * nsamples is a uint32_t product (it wraps),
\* the further factors are size_t
rx_exceeds(hd, nsamples) ==
  Gt(Mul(Mul(ZeroExt(Mul(nsamples, 2), 4), hd.sample_size), hd.nof_rx_channels),
     CONVERT_BUFFER_SIZE)

\* meta.actual_count / handler->nof_rx_channels (lines 563, 587).  With no
\* RX channel the division is by zero, which is undefined: a build either
\* traps ("trap") or yields 0 ("zero").
rx_per_channel(hd, actual_count) ==
  IF hd.nof_rx_channels = 0 THEN ToU32(0) ELSE Div(actual_count, hd.nof_rx_channels)

\* lines 589-598: what the conversion loop reads from rx_buffer and writes
\* to the caller's data[i]: [ch, op, off, len], offset and length in bytes
\* of rx_buffer
rx_write(hd, nsamples, i) ==
  LET two  == Mul(nsamples, 2)
      el   == Mul(two, i)
      size == IF hd.buffer_format = "BLADERF_FORMAT_SC8_Q7" THEN 1 ELSE SizeofInt16
  IN  [ch |-> i,
       op |-> IF hd.buffer_format = "BLADERF_FORMAT_SC8_Q7"
              THEN "srsran_vec_convert_bf" ELSE "srsran_vec_convert_if",
       off |-> Mul(ZeroExt(el, 4), size),
       len |-> Mul(ZeroExt(two, 4), size)]

RECURSIVE rx_writes(_, _, _, _)
rx_writes(hd, nsamples, null, i) ==
  IF i >= hd.nof_rx_channels THEN <<>>
  ELSE (IF i \notin null THEN <<rx_write(hd, nsamples, i)>> ELSE <<>>) \o
       rx_writes(hd, nsamples, null, i + 1)

\* timestamp_to_secs (lines 513-523) writes both time outputs
time_writes ==
  <<[ch |-> -1, op |-> "secs", off |-> <<>>, len |-> <<>>],
    [ch |-> -1, op |-> "frac_secs", off |-> <<>>, len |-> <<>>]>>

\* rf_blade_recv_with_time_multi:
\* result [handler, module, ret, returns, log, events, writes, meta].
\* ans: the transport's answers (sync_rx, deinterleave: statuses;
\* meta_status, actual_count: the metadata of the transfer), build: what
\* the build makes of a division by zero.
rf_blade_recv_with_time_multi(hd, mod, slot, req, ans, build) ==
  LET meta == Meta(ans.meta_status, ans.actual_count)
      out(ret, returns, log, events, writes) ==
        [handler |-> hd, module |-> mod, ret |-> ret, returns |-> returns,
         log |-> log, events |-> events, writes |-> writes,
         meta |-> IF Len(log) > 0 /\ ans.sync_rx = 0 THEN meta ELSE NoMeta]
      rx  == Request("bladerf_sync_rx", "",
                     <<Mul(req.nsamples, hd.nof_rx_channels), timeout_ms>>, ans.sync_rx)
      div0 == hd.nof_rx_channels = 0 /\ build = "trap"
      per  == rx_per_channel(hd, ans.actual_count)
      overrun == "OVERRUN" \in ans.meta_status
      ev  == IF ~overrun THEN <<>>
             ELSE IF req.nsamples # per
             THEN dispatch(slot, "SRSRAN_RF_ERROR_OVERFLOW", ans.actual_count)
             ELSE dispatch(slot, "SRSRAN_RF_ERROR_UNDERFLOW", <<>>)
      de  == Request("bladerf_deinterleave_stream_buffer", rx_layout(hd),
                     <<hd.buffer_format, Mul(ans.actual_count, hd.nof_rx_channels)>>,
                     ans.deinterleave)
  IN  IF rx_exceeds(hd, req.nsamples) THEN out(-1, TRUE, <<>>, <<>>, <<>>)
      ELSE IF ans.sync_rx # 0 THEN out(-1, TRUE, <<rx>>, <<>>, <<>>)
      ELSE IF overrun /\ slot[1] # "NULL" /\ div0 THEN out(0, FALSE, <<rx>>, <<>>, <<>>)
      ELSE IF ans.deinterleave # 0 THEN out(-1, TRUE, <<rx, de>>, ev, time_writes)
      ELSE IF div0 THEN out(0, FALSE, <<rx, de>>, ev, time_writes)
      ELSE out(U32ToInt(per), TRUE, <<rx, de>>, ev,
               time_writes \o rx_writes(hd, per, req.null, 0))

\* the metadata actual_count the transport may report for a request of
\* count samples: all of them, or half of them (a partial transfer)
ActualCounts(count) == {count, Div(count, 2)}

\* the transport's answers to a receive's requests: one failing request,
\* or the metadata of a transfer that succeeded
RxTransferAnswers(count) ==
  {[sync_rx |-> c, deinterleave |-> 0, meta_status |-> {}, actual_count |-> count] :
     c \in TransportErrors} \cup
  {[sync_rx |-> 0, deinterleave |-> c, meta_status |-> {}, actual_count |-> count] :
     c \in TransportErrors} \cup
  {[sync_rx |-> 0, deinterleave |-> 0, meta_status |-> m, actual_count |-> n] :
     m \in MetaStatuses, n \in ActualCounts(count)}

---------------------------------------------------------------------------
(* Requests of the checked instance *)

\* lines 552, 628: the per-channel sample count that fills the scratch
\* buffer, CONVERT_BUFFER_SIZE / 2 / sample_size / nof_channels (for a
\* session without channels, the count that fills it with one channel)
buffer_size(sample_size, nof_channels) ==
  (((128 * 1024 * SizeofInt16) \div 2) \div sample_size)
    \div (IF nof_channels = 0 THEN 1 ELSE nof_channels)

\* per-channel sample counts: a small one, the one that fills the scratch
\* buffer of the session, and the ones just above it
SampleCounts(sample_size, nof_channels) ==
  {1} \cup {buffer_size(sample_size, nof_channels) + d : d \in 0..Slack}

TxRequest(n, null, t, s, e) ==
  [nsamples |-> n, null |-> null, has_time_spec |-> t,
   is_start_of_burst |-> s, is_end_of_burst |-> e]

\* the small count with every null-channel pattern and every burst shape
TxShapes ==
  {TxRequest(1, z, FALSE, TRUE, TRUE) : z \in SUBSET {0, 1}} \cup
  {TxRequest(1, {}, t, s, e) : t, s, e \in BOOLEAN}

\* transmit counts outside the range of sizes: a negative one, and the
\* smallest one whose double overflows an int (2^30)
TxExtremes == {-1, Limb * (Limb \div 4)}

AllAccepted(keys) == [k \in keys |-> 0]

\* the answers of the transport to a lazy start: none is asked for when
\* the TX stream is enabled
LazyStartAnswers(hd) ==
  IF hd.tx_stream_enabled THEN {AllAccepted(StartKeys(tx_start_order(hd)))}
  ELSE Answers(StartKeys(tx_start_order(hd)))

\* receive requests: every sample count, the counts at and just above 2^31
\* (where 2 * nsamples wraps), and the small count with null destinations
RxRequests(hd) ==
  {[nsamples |-> ToU32(n), null |-> {}] :
     n \in SampleCounts(hd.sample_size, hd.nof_rx_channels)} \cup
  {[nsamples |-> U32(Limb \div 2, d), null |-> {}] : d \in 0..Slack} \cup
  {[nsamples |-> ToU32(1), null |-> z] : z \in SUBSET {0, 1}}

\* what a build makes of undefined behaviour in a call
TxBuilds(req) == IF tx_overflows(req.nsamples) THEN {"wrap", "wide"} ELSE {"wrap"}
RxBuilds(hd) == IF hd.nof_rx_channels = 0 THEN {"trap", "zero"} ELSE {"zero"}

---------------------------------------------------------------------------
(* Device session: open and close *)

\* the session object before open has filled it in
NoHandler ==
  [nof_tx_channels |-> 0, nof_rx_channels |-> 0,
   iq_scale |-> 0, sample_size |-> 0, format |-> "", buffer_format |-> "",
   rx_stream_enabled |-> FALSE, tx_stream_enabled |-> FALSE]

\* values of the key=value options of the device string (the last of each
\* is not a recognized value)
Formats == {"sc16", "sc8", "sc12"}
LogLevels == {"silent", "debug", "loud"}
TuningModes == {"host", "fpga", "auto"}
ValidLogLevels == {"verbose", "debug", "info", "warn", "error", "critical", "silent"}

\* the arguments of open: nof_channels, and the options as parse_uint32 /
\* parse_string leave them (an absent numeric option leaves 0)
OpenArgs ==
  [nof_channels : 0..MaxNofChannels,
   nof_tx_channels : 0..MaxChannelOpt, nof_rx_channels : 0..MaxChannelOpt,
   format : Formats, log_level : LogLevels, tuning_mode : TuningModes,
   malloc_ok : BOOLEAN]

OpenKeys == {"bladerf_open", "bladerf_set_tuning_mode",
             "bladerf_set_gain_mode:BLADERF_RX_X1", "bladerf_set_gain_mode:BLADERF_RX_X2"}

\* lines 239-244: an option that is 0 or larger than nof_channels is
\* replaced by nof_channels
clamp_channels(opt, nof_channels) ==
  IF opt = 0 \/ opt > nof_channels THEN nof_channels ELSE opt

\* lines 249-262: the format option decides scale, sample size and formats
with_format(hd, format) ==
  IF format = "sc16"
  THEN [hd EXCEPT !.iq_scale = 2048, !.sample_size = SizeofInt16,
                  !.format = "BLADERF_FORMAT_SC16_Q11_META",
                  !.buffer_format = "BLADERF_FORMAT_SC16_Q11"]
  ELSE [hd EXCEPT !.iq_scale = 128, !.sample_size = 1,
                  !.format = "BLADERF_FORMAT_SC8_Q7_META",
                  !.buffer_format = "BLADERF_FORMAT_SC8_Q7"]

\* rf_blade_open_multi: result [h, heap, dev, handler, ret, log]
rf_blade_open_multi(args, ans) ==
  LET out(hv, hp, dv, hd, ret, log) ==
        [h |-> hv, heap |-> hp, dev |-> dv, handler |-> hd, ret |-> ret, log |-> log]
      hd1 == [NoHandler EXCEPT
                !.nof_tx_channels = clamp_channels(args.nof_tx_channels, args.nof_channels),
                !.nof_rx_channels = clamp_channels(args.nof_rx_channels, args.nof_channels)]
      hd2 == with_format(hd1, args.format)
      verb == Request("bladerf_log_set_verbosity", "", <<args.log_level>>, 0)
      s_open == ans["bladerf_open"]
      r_open == Request("bladerf_open", "", <<>>, s_open)
      s_tune == ans["bladerf_set_tuning_mode"]
      r_tune == Request("bladerf_set_tuning_mode", "", <<args.tuning_mode>>, s_tune)
      s_g1 == ans["bladerf_set_gain_mode:BLADERF_RX_X1"]
      r_g1 == Request("bladerf_set_gain_mode", "BLADERF_RX_X1", <<"BLADERF_GAIN_MGC">>, s_g1)
      s_g2 == ans["bladerf_set_gain_mode:BLADERF_RX_X2"]
      r_g2 == Request("bladerf_set_gain_mode", "BLADERF_RX_X2", <<"BLADERF_GAIN_MGC">>, s_g2)
      done == [hd2 EXCEPT !.rx_stream_enabled = FALSE, !.tx_stream_enabled = FALSE]
  IN  IF ~args.malloc_ok THEN out("NULL", "none", "none", NoHandler, SRSRAN_ERROR, <<>>)
      ELSE IF args.nof_channels > 2
        THEN out("handler", "allocated", "none", NoHandler, SRSRAN_ERROR, <<>>)
      ELSE IF args.format \notin {"sc16", "sc8"}
        THEN out("handler", "allocated", "none", hd1, SRSRAN_ERROR, <<>>)
      ELSE IF args.log_level \notin ValidLogLevels
        THEN out("handler", "allocated", "none", hd2, SRSRAN_ERROR, <<>>)
      ELSE IF s_open # 0
        THEN out("handler", "freed", "none", hd2, s_open, <<verb, r_open>>)
      ELSE IF args.tuning_mode \notin {"fpga", "host"}
        THEN out("handler", "freed", "open", hd2, SRSRAN_ERROR, <<verb, r_open>>)
      ELSE IF s_tune # 0
        THEN out("handler", "freed", "open", hd2, s_tune, <<verb, r_open, r_tune>>)
      ELSE IF s_g1 # 0
        THEN out("handler", "freed", "open", hd2, s_g1, <<verb, r_open, r_tune, r_g1>>)
      ELSE IF hd2.nof_rx_channels > 1 /\ s_g2 # 0
        THEN out("handler", "freed", "open", hd2, s_g2,
                 <<verb, r_open, r_tune, r_g1, r_g2>>)
      ELSE out("handler", "allocated", "open", done, SRSRAN_SUCCESS,
               <<verb, r_open, r_tune, r_g1>> \o
               (IF hd2.nof_rx_channels > 1 THEN <<r_g2>> ELSE <<>>))

\* rf_blade_close: result [dev, ret, log]; nothing but bladerf_close is called
rf_blade_close(hd, mod) ==
  [handler |-> hd, module |-> mod, dev |-> "closed", ret |-> 0,
   log |-> <<Request("bladerf_close", "", <<>>, 0)>>]

---------------------------------------------------------------------------
(* Actions: one per exported function.  An API call is made when the      *)
(* caller holds no unread result (call.op = "none"); Return is the caller *)
(* taking the result of the latest call.                                  *)

NoCall == [op |-> "none"]

\* no thread is inside the API
NoThreads ==
  [todo |-> [t \in {"rx", "tx"} |-> <<>>], acc |-> [t \in {"rx", "tx"} |-> {}],
   seen |-> FALSE, stale |-> FALSE]

AllDisabled == [c \in Channels |-> FALSE]

Init ==
  /\ sess = "none"
  /\ h = "NULL"
  /\ heap = "none"
  /\ dev = "none"
  /\ handler = NoHandler
  /\ module = AllDisabled
  /\ blade_error_handler = "NULL"
  /\ blade_error_handler_arg = "NULL"
  /\ call = NoCall
  /\ threads = NoThreads

\* the record of a call on an open session
\* (pre, pre_module, slot: the session, the hardware and the handler slot
\* as the call found them; returns: FALSE when the call trapped; meta: the
\* metadata the transport handed back)
Called(op, req, r) ==
  [op |-> op, req |-> req, pre |-> handler, pre_module |-> module,
   slot |-> <<blade_error_handler, blade_error_handler_arg>>,
   log |-> r.log, ret |-> r.ret, returns |-> r.returns,
   events |-> r.events, writes |-> r.writes, meta |-> r.meta]

\* the result of a function that raises no event and moves no samples
Plain(r) ==
  [log |-> r.log, ret |-> r.ret, returns |-> TRUE, events |-> <<>>, writes |-> <<>>,
   meta |-> NoMeta]

Open ==
  /\ call.op = "none"
  /\ sess = "none"
  /\ \E args \in OpenArgs, ans \in Answers(OpenKeys) :
       LET r == rf_blade_open_multi(args, ans)
       IN  /\ h' = r.h
           /\ heap' = r.heap
           /\ dev' = r.dev
           /\ handler' = r.handler
           /\ sess' = IF r.ret = SRSRAN_SUCCESS THEN "open" ELSE "failed"
           /\ call' = Called("open", args, Plain(r))
  /\ UNCHANGED <<threads, module, blade_error_handler, blade_error_handler_arg>>

Close ==
  /\ call.op = "none"
  /\ sess = "open"
  /\ LET r == rf_blade_close(handler, module)
     IN  /\ dev' = r.dev
         /\ handler' = r.handler
         /\ module' = r.module
         /\ call' = Called("close", <<>>, Plain(r))
  /\ sess' = "closed"
  /\ UNCHANGED <<threads, h, heap, blade_error_handler, blade_error_handler_arg>>

Register ==
  /\ call.op = "none"
  /\ sess \in {"none", "open"}
  /\ \E reg \in Registrations :
       LET slot == rf_blade_register_error_handler(reg[1], reg[2])
       IN  /\ blade_error_handler' = slot[1]
           /\ blade_error_handler_arg' = slot[2]
           /\ call' = Called("register", reg, Plain([log |-> <<>>, ret |-> 0]))
  /\ UNCHANGED <<threads, sess, h, heap, dev, handler, module>>

StartTx ==
  /\ call.op = "none"
  /\ sess = "open"
  /\ \E ans \in Answers(StartKeys(tx_start_order(handler))) :
       LET r == rf_blade_start_tx_stream(handler, module, ans)
       IN  /\ handler' = r.handler
           /\ module' = r.module
           /\ call' = Called("start_tx", <<>>, Plain(r))
  /\ UNCHANGED <<threads, sess, h, heap, dev, blade_error_handler, blade_error_handler_arg>>

StartRx ==
  /\ call.op = "none"
  /\ sess = "open"
  /\ \E ans \in Answers(StartKeys(rx_start_order(handler))) :
       LET r == rf_blade_start_rx_stream(handler, module, ans)
       IN  /\ handler' = r.handler
           /\ module' = r.module
           /\ call' = Called("start_rx", <<>>, Plain(r))
  /\ UNCHANGED <<threads, sess, h, heap, dev, blade_error_handler, blade_error_handler_arg>>

Stop ==
  /\ call.op = "none"
  /\ sess = "open"
  /\ \E ans \in Answers(StopKeys(stop_order(handler))) :
       LET r == rf_blade_stop_rx_stream(handler, module, ans)
       IN  /\ handler' = r.handler
           /\ module' = r.module
           /\ call' = Called("stop", <<>>, Plain(r))
  /\ UNCHANGED <<threads, sess, h, heap, dev, blade_error_handler, blade_error_handler_arg>>

\* one transmit call, on request req, with the transport answering sa to
\* the lazy start and xa to the transfer
SendCall(req, sa, xa) ==
  \E build \in TxBuilds(req) :
    LET ans == [start |-> sa, interleave |-> xa.interleave,
                sync_tx |-> xa.sync_tx, meta_status |-> xa.meta_status]
        r == rf_blade_send_timed_multi(
               handler, module, <<blade_error_handler, blade_error_handler_arg>>,
               req, ans, build)
    IN  /\ handler' = r.handler
        /\ module' = r.module
        /\ call' = Called("send", req, r)

\* transmit calls: every sample count as a one-call burst sent now, under
\* every answer of the transport; every shape of request under every
\* answer to the transfer; and the counts outside the range of sizes with
\* every request accepted
Send ==
  /\ call.op = "none"
  /\ sess = "open"
  /\ \/ \E n \in SampleCounts(handler.sample_size, handler.nof_tx_channels),
          sa \in LazyStartAnswers(handler), xa \in TxTransferAnswers :
          SendCall(TxRequest(n, {}, FALSE, TRUE, TRUE), sa, xa)
     \/ \E req \in TxShapes, xa \in TxTransferAnswers :
          SendCall(req, AllAccepted(StartKeys(tx_start_order(handler))), xa)
     \/ \E n \in TxExtremes :
          SendCall(TxRequest(n, {}, FALSE, TRUE, TRUE),
                   AllAccepted(StartKeys(tx_start_order(handler))),
                   [interleave |-> 0, sync_tx |-> 0, meta_status |-> {}])
  /\ UNCHANGED <<threads, sess, h, heap, dev, blade_error_handler, blade_error_handler_arg>>

Recv ==
  /\ call.op = "none"
  /\ sess = "open"
  /\ \E req \in RxRequests(handler), build \in RxBuilds(handler) :
       \E ans \in RxTransferAnswers(Mul(req.nsamples, handler.nof_rx_channels)) :
         LET r == rf_blade_recv_with_time_multi(
                    handler, module, <<blade_error_handler, blade_error_handler_arg>>,
                    req, ans, build)
         IN  /\ handler' = r.handler
             /\ module' = r.module
             /\ sess' = IF r.returns THEN sess ELSE "crashed"
             /\ call' = Called("recv", req, r)
  /\ UNCHANGED <<threads, h, heap, dev, blade_error_handler, blade_error_handler_arg>>

Return ==
  /\ call.op # "none"
  /\ call' = NoCall
  /\ UNCHANGED <<threads, sess, h, heap, dev, handler, module,
                 blade_error_handler, blade_error_handler_arg>>

Next ==
  \/ Open
  \/ Close
  \/ Register
  \/ StartTx
  \/ StartRx
  \/ Stop
  \/ Send
  \/ Recv
  \/ Return

Spec == Init /\ [][Next]_vars

---------------------------------------------------------------------------
(* Two caller threads.  The RX caller runs rf_blade_start_rx_stream,        *)
(* rf_blade_stop_rx_stream and rf_blade_recv_with_time_multi, the TX caller *)
(* runs rf_blade_send_timed_multi; the code takes no lock, so the functions *)
(* interleave statement by statement.  A thread's todo is the statements it *)
(* has left to run in its current call; acc is what it has read ("r") and   *)
(* written ("w") so far.                                                    *)

Threads == {"rx", "tx"}

\* one statement of function fn, on channel / direction ch
Stmt(stmt, fn, ch) == [stmt |-> stmt, fn |-> fn, ch |-> ch]

\* the statements of a sequence of channels, one per channel
OnEach(stmt, fn, chs) == [i \in DOMAIN chs |-> Stmt(stmt, fn, chs[i])]

\* rf_blade_start_tx_stream (lines 94-120), rf_blade_start_rx_stream (138-165)
StartTxStmts(hd) ==
  <<Stmt("sync_config", "rf_blade_start_tx_stream", tx_layout(hd))>> \o
  OnEach("enable", "rf_blade_start_tx_stream", tx_start_order(hd)) \o
  <<Stmt("set_flag", "rf_blade_start_tx_stream", "tx_stream_enabled")>>
StartRxStmts(hd) ==
  <<Stmt("sync_config", "rf_blade_start_rx_stream", rx_layout(hd))>> \o
  OnEach("enable", "rf_blade_start_rx_stream", rx_start_order(hd)) \o
  <<Stmt("set_flag", "rf_blade_start_rx_stream", "rx_stream_enabled")>>

\* rf_blade_stop_rx_stream (lines 173-201)
StopStmts(hd) ==
  OnEach("disable", "rf_blade_stop_rx_stream", stop_order(hd)) \o
  <<Stmt("clear_flags", "rf_blade_stop_rx_stream", "")>>

\* rf_blade_recv_with_time_multi: the transfer (556) and the deinterleave (578)
RecvStmts ==
  <<Stmt("bladerf_sync_rx", "rf_blade_recv_with_time_multi", "rx_buffer"),
    Stmt("bladerf_deinterleave_stream_buffer", "rf_blade_recv_with_time_multi", "rx_buffer")>>

\* rf_blade_send_timed_multi: the test of the flag (623), then the
\* conversion and interleave (633-649) and the transfer (672)
SendStmts == <<Stmt("read_flag", "rf_blade_send_timed_multi", "tx_stream_enabled")>>
SendTransferStmts ==
  <<Stmt("bladerf_interleave_stream_buffer", "rf_blade_send_timed_multi", "tx_buffer"),
    Stmt("bladerf_sync_tx", "rf_blade_send_timed_multi", "tx_buffer")>>

\* the calls each thread makes
ThreadCalls(t, hd) ==
  IF t = "rx" THEN {StartRxStmts(hd), StopStmts(hd), RecvStmts} ELSE {SendStmts}

RECURSIVE Return_from(_, _)
\* return from function fn: its remaining statements are not run
Return_from(fn, todo) ==
  IF todo = <<>> \/ Head(todo).fn # fn THEN todo ELSE Return_from(fn, Tail(todo))

\* thread t has run its next statement, touching the locations in touched;
\* a statement whose status is not 0 returns from its function
Ran(t, status, touched) ==
  LET rest == Tail(threads.todo[t])
  IN  [threads EXCEPT
         !.todo[t] = IF status = 0 THEN rest
                     ELSE Return_from(Head(threads.todo[t]).fn, rest),
         !.acc[t] = @ \cup touched]

\* thread t is at a statement of kind stmt
AtStmt(t, kinds) == threads.todo[t] # <<>> /\ Head(threads.todo[t]).stmt \in kinds

\* the sessions the threads start from: opened, with each direction Idle or
\* started, and a handler registered
ThreadSessions ==
  {s \in [handler : {rf_blade_open_multi(a, AllAccepted(OpenKeys)).handler : a \in OpenArgs},
          rx : BOOLEAN, tx : BOOLEAN] :
     \E a \in OpenArgs :
       LET r == rf_blade_open_multi(a, AllAccepted(OpenKeys))
       IN  r.ret = SRSRAN_SUCCESS /\ r.handler = s.handler}

InitThreads ==
  /\ sess = "open"
  /\ h = "handler"
  /\ heap = "allocated"
  /\ dev = "open"
  /\ blade_error_handler = "cb1"
  /\ blade_error_handler_arg = "ctx1"
  /\ call = NoCall
  /\ threads = NoThreads
  /\ \E s \in ThreadSessions :
       LET rx == IF s.rx
                 THEN rf_blade_start_rx_stream(
                        s.handler, AllDisabled, AllAccepted(StartKeys(rx_start_order(s.handler))))
                 ELSE [handler |-> s.handler, module |-> AllDisabled]
           tx == IF s.tx
                 THEN rf_blade_start_tx_stream(
                        rx.handler, rx.module, AllAccepted(StartKeys(tx_start_order(rx.handler))))
                 ELSE rx
       IN  handler = tx.handler /\ module = tx.module

\* a thread that is not inside the API makes a call
ThreadCall ==
  /\ \E t \in Threads :
       /\ threads.todo[t] = <<>>
       /\ \E stmts \in ThreadCalls(t, handler) :
            threads' = [threads EXCEPT !.todo[t] = stmts]
  /\ UNCHANGED <<sess, h, heap, dev, handler, module,
                 blade_error_handler, blade_error_handler_arg, call>>

\* line 623: transmit tests tx_stream_enabled and calls
\* rf_blade_start_tx_stream when it is false
ReadFlag ==
  /\ AtStmt("tx", {"read_flag"})
  /\ threads' =
       [Ran("tx", 0, {<<"tx_stream_enabled", "r">>}) EXCEPT
          !.todo["tx"] = (IF handler.tx_stream_enabled THEN <<>> ELSE StartTxStmts(handler))
                         \o SendTransferStmts,
          !.seen = handler.tx_stream_enabled]
  /\ UNCHANGED <<sess, h, heap, dev, handler, module,
                 blade_error_handler, blade_error_handler_arg, call>>

\* bladerf_sync_config (lines 94, 138)
SyncConfig ==
  /\ \E t \in Threads, status \in Status :
       /\ AtStmt(t, {"sync_config"})
       /\ threads' = Ran(t, status, {})
  /\ UNCHANGED <<sess, h, heap, dev, handler, module,
                 blade_error_handler, blade_error_handler_arg, call>>

\* bladerf_enable_module(dev, ch, true / false) (lines 106-113, 151-158, 173-194)
EnableModule ==
  /\ \E t \in Threads, status \in Status :
       /\ AtStmt(t, {"enable", "disable"})
       /\ LET st == Head(threads.todo[t])
          IN  /\ module' = bladerf_enable_module(module, st.ch, st.stmt = "enable", status)
              /\ threads' = Ran(t, status, {<<st.ch, "w">>})
  /\ UNCHANGED <<sess, h, heap, dev, handler,
                 blade_error_handler, blade_error_handler_arg, call>>

\* the writes of the stream-enabled flags (lines 119, 164, 200-201)
WriteFlags ==
  /\ \E t \in Threads :
       /\ AtStmt(t, {"set_flag", "clear_flags"})
       /\ LET st == Head(threads.todo[t])
          IN  IF st.stmt = "set_flag"
              THEN /\ handler' = [handler EXCEPT ![st.ch] = TRUE]
                   /\ threads' = Ran(t, 0, {<<st.ch, "w">>})
              ELSE /\ handler' = [handler EXCEPT !.rx_stream_enabled = FALSE,
                                                 !.tx_stream_enabled = FALSE]
                   /\ threads' = Ran(t, 0, {<<"rx_stream_enabled", "w">>,
                                            <<"tx_stream_enabled", "w">>})
  /\ UNCHANGED <<sess, h, heap, dev, module,
                 blade_error_handler, blade_error_handler_arg, call>>

\* the modules a transfer in the direction of buffer streams through
StreamModules(buffer, hd) ==
  LET order == IF buffer = "tx_buffer" THEN tx_start_order(hd) ELSE rx_start_order(hd)
  IN  {order[i] : i \in DOMAIN order}

\* the (de)interleave of a scratch buffer and the blocking transfer (lines
\* 556, 578, 646, 672).  A bladerf_sync_tx is stale when this transmit read
\* tx_stream_enabled as true and a TX module is disabled by now.
Transfer ==
  /\ \E t \in Threads, status \in Status :
       /\ AtStmt(t, {"bladerf_sync_rx", "bladerf_deinterleave_stream_buffer",
                     "bladerf_interleave_stream_buffer", "bladerf_sync_tx"})
       /\ LET st == Head(threads.todo[t])
              mods == IF st.stmt \in {"bladerf_sync_rx", "bladerf_sync_tx"}
                      THEN StreamModules(st.ch, handler) ELSE {}
          IN  threads' =
                [Ran(t, status, {<<st.ch, IF st.stmt = "bladerf_sync_tx" THEN "r" ELSE "w">>}
                                 \cup {<<m, "r">> : m \in mods}) EXCEPT
                   !.stale = @ \/ (/\ st.stmt = "bladerf_sync_tx"
                                   /\ threads.seen
                                   /\ \E m \in mods : ~module[m])]
  /\ UNCHANGED <<sess, h, heap, dev, handler, module,
                 blade_error_handler, blade_error_handler_arg, call>>

NextThreads ==
  \/ ThreadCall
  \/ ReadFlag
  \/ SyncConfig
  \/ EnableModule
  \/ WriteFlags
  \/ Transfer

SpecThreads == InitThreads /\ [][NextThreads]_vars

---------------------------------------------------------------------------
(* Properties.  They are stated on the record of the latest call: call.pre *)
(* and call.pre_module are the session and the hardware as the call found  *)
(* them, handler and module are what it left.                              *)

\* the positions of the requests to fn in a log
At(log, fn) == {i \in DOMAIN log : log[i].fn = fn}

\* the positions of the requests the transport refused
Refused(log) == {i \in DOMAIN log : log[i].status # 0}

TxChannels == {"BLADERF_TX_X1", "BLADERF_TX_X2"}
RxChannels == {"BLADERF_RX_X1", "BLADERF_RX_X2"}

\* 2 * n * sample_size * nof_channels > 128K * sizeof(int16_t), as numbers:
\* for an int n, and for a uint32_t n given by its limbs
ExceedsCapacity(n, sample_size, nof_channels) ==
  /\ sample_size * nof_channels > 0
  /\ n > (128 * 1024 * SizeofInt16) \div (2 * sample_size * nof_channels)
ExceedsCapacityU32(n, sample_size, nof_channels) ==
  /\ sample_size * nof_channels > 0
  /\ LET bound == (128 * 1024 * SizeofInt16) \div (2 * sample_size * nof_channels)
     IN  \/ n[2] > bound \div Limb
         \/ n[2] = bound \div Limb /\ n[1] > bound % Limb

\* C1: a transmit made while tx_stream_enabled is false makes exactly one
\* start attempt (one sync_config on the TX layout, then module enables of
\* TX channels, with nothing in between) and makes it before its
\* bladerf_sync_tx; a transmit made while tx_stream_enabled is true makes no
\* start attempt.
C1_LazyStartOnce ==
  call.op = "send" =>
    LET log == call.log
        cfg == At(log, "bladerf_sync_config")
        en  == At(log, "bladerf_enable_module")
    IN  IF ~call.pre.tx_stream_enabled
        THEN /\ cfg = {1}
             /\ log[1].ch = (IF call.pre.nof_tx_channels = 1
                             THEN "BLADERF_TX_X1" ELSE "BLADERF_TX_X2")
             /\ en = 2..(1 + Cardinality(en))
             /\ \A i \in en : log[i].ch \in TxChannels /\ log[i].arg = <<TRUE>>
             /\ \A t \in At(log, "bladerf_sync_tx") : \A i \in cfg \cup en : i < t
        ELSE cfg = {} /\ en = {}

\* C1 witness: a transmit on an Idle TX stream that started it and went on
\* to the transfer
C1_Witness ==
  /\ call.op = "send"
  /\ ~call.pre.tx_stream_enabled
  /\ handler.tx_stream_enabled
  /\ At(call.log, "bladerf_sync_tx") # {}

\* C2 (as claimed): a transmit whose size exceeds the capacity makes no
\* transport call and changes neither stream-enabled flag nor tx_buffer
C2_OversizeTransmitHasNoEffect ==
  (/\ call.op = "send"
   /\ ExceedsCapacity(call.req.nsamples, call.pre.sample_size, call.pre.nof_tx_channels))
  => /\ call.log = <<>>
     /\ call.writes = <<>>
     /\ handler.tx_stream_enabled = call.pre.tx_stream_enabled
     /\ handler.rx_stream_enabled = call.pre.rx_stream_enabled

\* C3 (as claimed): a receive whose size exceeds the capacity returns -1,
\* makes no transport call, dispatches no fault event and writes nothing to
\* the caller's buffers or time outputs
C3_OversizeReceiveIsRejected ==
  (/\ call.op = "recv"
   /\ ExceedsCapacityU32(call.req.nsamples, call.pre.sample_size, call.pre.nof_rx_channels))
  => /\ call.returns
     /\ call.ret = -1
     /\ call.log = <<>>
     /\ call.events = <<>>
     /\ call.writes = <<>>

\* C4: when bladerf_sync_tx answers time-in-past and a handler is
\* registered, the call dispatches exactly one event, a LATE one, to that
\* handler, and returns nsamples
C4_LateIsReportedOnce ==
  (/\ call.op = "send"
   /\ call.slot[1] # "NULL"
   /\ \E i \in At(call.log, "bladerf_sync_tx") : call.log[i].status = BLADERF_ERR_TIME_PAST)
  => /\ Len(call.events) = 1
     /\ call.events[1].type = "SRSRAN_RF_ERROR_LATE"
     /\ call.events[1].handler = call.slot[1]
     /\ call.events[1].arg = call.slot[2]
     /\ call.returns
     /\ call.ret = call.req.nsamples
     /\ call.ret >= 0

\* C4 witness: a transmit with a handler registered whose transfer was
\* answered time-in-past
C4_Witness ==
  /\ call.op = "send"
  /\ call.slot[1] # "NULL"
  /\ \E i \in At(call.log, "bladerf_sync_tx") : call.log[i].status = BLADERF_ERR_TIME_PAST

\* C5 (as claimed): stop with both streams Idle returns success and changes
\* neither the flags nor the hardware, whatever the transport answers
C5_StopWhenIdleIsNoOp ==
  (/\ call.op = "stop"
   /\ ~call.pre.rx_stream_enabled
   /\ ~call.pre.tx_stream_enabled)
  => /\ call.ret = 0
     /\ handler = call.pre
     /\ module = call.pre_module

\* C5 (amended): stop with both streams Idle leaves both flags false and
\* enables no hardware module; it returns 0 when the transport accepts
\* every disable request and the refused request's status otherwise
C5_StopWhenIdleKeepsIdle ==
  (/\ call.op = "stop"
   /\ ~call.pre.rx_stream_enabled
   /\ ~call.pre.tx_stream_enabled)
  => /\ handler = call.pre
     /\ \A c \in Channels : module[c] => call.pre_module[c]
     /\ Refused(call.log) = {} => call.ret = 0
     /\ \A i \in Refused(call.log) : call.ret = call.log[i].status

\* C5 witness: a stop on an Idle session that succeeded and found a module
\* enabled (left by a failed start)
C5_Witness ==
  /\ call.op = "stop"
  /\ ~call.pre.rx_stream_enabled
  /\ ~call.pre.tx_stream_enabled
  /\ call.ret = 0
  /\ \E c \in Channels : call.pre_module[c] /\ ~module[c]

\* C6 (as claimed): once close has released the device, every module is
\* disabled and both stream-enabled flags are false
C6_CloseStopsStreams ==
  dev = "closed" =>
    /\ \A c \in Channels : ~module[c]
    /\ ~handler.rx_stream_enabled
    /\ ~handler.tx_stream_enabled

\* C7 (as claimed): a start that the transport refuses returns the refused
\* request's status, makes no request after it, leaves its direction's flag
\* false and the other direction's flag unchanged
C7_StartFailureLeavesFlagFalse ==
  (call.op \in {"start_rx", "start_tx"} /\ Refused(call.log) # {})
  => /\ Refused(call.log) = {Len(call.log)}
     /\ call.ret = call.log[Len(call.log)].status
     /\ IF call.op = "start_rx"
        THEN /\ ~handler.rx_stream_enabled
             /\ handler.tx_stream_enabled = call.pre.tx_stream_enabled
        ELSE /\ ~handler.tx_stream_enabled
             /\ handler.rx_stream_enabled = call.pre.rx_stream_enabled

\* C7 (amended): a start that the transport refuses returns the refused
\* request's status, makes no request after it and leaves both
\* stream-enabled flags as they were (an Idle direction stays Idle)
C7_StartFailureKeepsFlags ==
  (call.op \in {"start_rx", "start_tx"} /\ Refused(call.log) # {})
  => /\ Refused(call.log) = {Len(call.log)}
     /\ call.ret = call.log[Len(call.log)].status
     /\ call.ret # 0
     /\ handler.rx_stream_enabled = call.pre.rx_stream_enabled
     /\ handler.tx_stream_enabled = call.pre.tx_stream_enabled

\* C7 witness: a start of an Idle TX direction refused at channel 2
C7_Witness ==
  /\ call.op = "start_tx"
  /\ ~call.pre.tx_stream_enabled
  /\ Len(call.log) = 3
  /\ call.log[3].status # 0
  /\ module["BLADERF_TX_X1"]

\* the disable requests of a stop on session hd, in the order claimed
ClaimedStopOrder(hd) ==
  <<"BLADERF_RX_X1">> \o (IF hd.nof_rx_channels = 2 THEN <<"BLADERF_RX_X2">> ELSE <<>>) \o
  <<"BLADERF_TX_X1">> \o (IF hd.nof_tx_channels = 2 THEN <<"BLADERF_TX_X2">> ELSE <<>>)

\* C8: stop asks to disable RX1, RX2, TX1, TX2 in this order (RX2 / TX2
\* with 2 channels only); the first refusal ends the sequence, its status
\* is returned, the later modules are not touched and both flags keep their
\* values; when every request is accepted both flags become false
C8_StopOrdering ==
  call.op = "stop" =>
    LET log == call.log
        order == ClaimedStopOrder(call.pre)
    IN  /\ Len(log) <= Len(order)
        /\ \A i \in DOMAIN log :
             /\ log[i].fn = "bladerf_enable_module"
             /\ log[i].ch = order[i]
             /\ log[i].arg = <<FALSE>>
             /\ i < Len(log) => log[i].status = 0
        /\ \A i \in DOMAIN order :
             module[order[i]] =
               (IF i <= Len(log) /\ log[i].status = 0 THEN FALSE
                ELSE call.pre_module[order[i]])
        /\ IF Refused(log) # {}
           THEN /\ call.ret = log[Len(log)].status
                /\ handler = call.pre
           ELSE /\ Len(log) = Len(order)
                /\ call.ret = 0
                /\ ~handler.rx_stream_enabled
                /\ ~handler.tx_stream_enabled

\* C8 witness: a stop of two Streaming directions whose RX disable was
\* accepted and whose TX1 disable was refused
C8_Witness ==
  /\ call.op = "stop"
  /\ call.pre.rx_stream_enabled
  /\ call.pre.tx_stream_enabled
  /\ call.pre.nof_rx_channels = 2
  /\ Len(call.log) = 3
  /\ call.log[3].status # 0

\* C9 (as claimed): a direction's flag is true exactly when the modules of
\* all its active channels are enabled
C9_FlagMatchesHardware ==
  sess = "open" =>
    /\ handler.rx_stream_enabled <=>
         (/\ module["BLADERF_RX_X1"]
          /\ handler.nof_rx_channels > 1 => module["BLADERF_RX_X2"])
    /\ handler.tx_stream_enabled <=>
         (/\ module["BLADERF_TX_X1"]
          /\ handler.nof_tx_channels > 1 => module["BLADERF_TX_X2"])

\* C10 (as claimed): an open that succeeds leaves TX and RX channel counts
\* in {1, 2} and not above nof_channels; an open with nof_channels outside
\* {1, 2} fails
C10_ChannelCounts ==
  call.op = "open" =>
    /\ call.ret = SRSRAN_SUCCESS =>
         /\ handler.nof_tx_channels \in {1, 2}
         /\ handler.nof_rx_channels \in {1, 2}
         /\ handler.nof_tx_channels <= call.req.nof_channels
         /\ handler.nof_rx_channels <= call.req.nof_channels
    /\ call.req.nof_channels \notin {1, 2} => call.ret # SRSRAN_SUCCESS

\* C11 (as claimed): after an open that fails, the handle passed back to
\* the caller is NULL: it refers neither to a session object that is still
\* allocated nor to one that has been freed
C11_FailedOpenReturnsNull ==
  (call.op = "open" /\ call.ret # SRSRAN_SUCCESS) => h = "NULL"

\* a receive whose transfer the transport completed, and whose deinterleave
\* it did not refuse
RxTransferred ==
  /\ call.op = "recv"
  /\ call.log # <<>>
  /\ \A i \in DOMAIN call.log : call.log[i].status = 0

\* C12 (as claimed): a receive whose transfer succeeds with the overrun bit
\* set, with a handler registered, dispatches exactly one event: OVERFLOW
\* carrying the actual count when the actual count differs from the count
\* asked of the transport, UNDERFLOW otherwise; it returns its per-channel
\* count, which is not negative.  Without the overrun bit a receive
\* dispatches no event.
C12_OverrunClassification ==
  /\ (/\ RxTransferred
      /\ "OVERRUN" \in call.meta.status
      /\ call.slot[1] # "NULL")
     => /\ call.returns
        /\ Len(call.events) = 1
        /\ call.events[1].handler = call.slot[1]
        /\ call.events[1].arg = call.slot[2]
        /\ IF call.meta.actual_count # call.log[1].arg[1]
           THEN /\ call.events[1].type = "SRSRAN_RF_ERROR_OVERFLOW"
                /\ call.events[1].opt = call.meta.actual_count
           ELSE call.events[1].type = "SRSRAN_RF_ERROR_UNDERFLOW"
        /\ call.ret >= 0
        /\ call.pre.nof_rx_channels > 0
        /\ IntToU32(call.ret) = Div(call.meta.actual_count, call.pre.nof_rx_channels)
  /\ (call.op = "recv" /\ "OVERRUN" \notin call.meta.status) => call.events = <<>>

\* C13 (as claimed): a transmit whose transfer returns 0 with the underrun
\* bit set in the metadata status, alone or together with other bits,
\* dispatches exactly one event, an UNDERFLOW one, to the registered
\* handler, and returns nsamples
C13_UnderrunIsReported ==
  (/\ call.op = "send"
   /\ \E i \in At(call.log, "bladerf_sync_tx") : call.log[i].status = 0
   /\ "UNDERRUN" \in call.meta.status
   /\ call.slot[1] # "NULL")
  => /\ Len(call.events) = 1
     /\ call.events[1].type = "SRSRAN_RF_ERROR_UNDERFLOW"
     /\ call.events[1].handler = call.slot[1]
     /\ call.events[1].arg = call.slot[2]
     /\ call.ret = call.req.nsamples

\* the sample conversions among the writes of a receive (the others are
\* the time outputs)
Conversions(writes) == {k \in DOMAIN writes : writes[k].ch >= 0}

\* C14 (as claimed): a receive that succeeds returns the actual count the
\* transport reported divided by the number of RX channels, and converts
\* exactly that many samples (twice as many components) into the
\* destination of each channel that has one, and nothing for a channel
\* whose destination is null
C14_ReceiveCount ==
  RxTransferred =>
    LET nch  == call.pre.nof_rx_channels
        size == IF call.pre.buffer_format = "BLADERF_FORMAT_SC8_Q7" THEN 1 ELSE SizeofInt16
        conv == Conversions(call.writes)
    IN  /\ call.returns
        /\ nch > 0
        /\ call.ret >= 0
        /\ IntToU32(call.ret) = Div(call.meta.actual_count, nch)
        /\ {call.writes[k].ch : k \in conv} = (0..(nch - 1)) \ call.req.null
        /\ Cardinality(conv) = Cardinality((0..(nch - 1)) \ call.req.null)
        /\ \A k \in conv :
             call.writes[k].len = Mul(ZeroExt(IntToU32(call.ret), 4), 2 * size)

\* the transfer request of a transmit or a receive that the transport
\* refused with a hard error (for transmit: any refusal but time-in-past)
HardError ==
  \/ /\ call.op = "recv"
     /\ \E i \in At(call.log, "bladerf_sync_rx") : call.log[i].status # 0
  \/ /\ call.op = "send"
     /\ \E i \in At(call.log, "bladerf_sync_tx") :
          call.log[i].status \notin {0, BLADERF_ERR_TIME_PAST}

\* C15 (as claimed): a transmit or receive whose transfer is refused with a
\* hard error returns a negative value and dispatches no event; a receive
\* then makes no deinterleave request and writes no sample; both
\* stream-enabled flags are as they were before the call
C15_HardErrorIsFatal ==
  HardError =>
    /\ call.returns
    /\ call.ret < 0
    /\ call.events = <<>>
    /\ call.op = "recv" =>
         /\ At(call.log, "bladerf_deinterleave_stream_buffer") = {}
         /\ Conversions(call.writes) = {}
    /\ handler.rx_stream_enabled = call.pre.rx_stream_enabled
    /\ handler.tx_stream_enabled = call.pre.tx_stream_enabled

\* C15 (amended): as C15, with the flags as the call's lazy start left them:
\* the refused transfer changes no flag, rx_stream_enabled is as before the
\* call, and tx_stream_enabled is true exactly when it was true before the
\* call or the lazy start of this transmit was accepted in full.  The value
\* returned is -1 for receive and the transport's status for transmit.
C15_HardErrorKeepsSession ==
  HardError =>
    LET start == At(call.log, "bladerf_sync_config") \cup
                 At(call.log, "bladerf_enable_module")
    IN  /\ call.returns
        /\ call.ret < 0
        /\ call.op = "recv" => call.ret = -1
        /\ call.op = "send" => call.ret = call.log[Len(call.log)].status
        /\ call.events = <<>>
        /\ call.op = "recv" =>
             /\ At(call.log, "bladerf_deinterleave_stream_buffer") = {}
             /\ Conversions(call.writes) = {}
        /\ handler.rx_stream_enabled = call.pre.rx_stream_enabled
        /\ handler.tx_stream_enabled <=>
             \/ call.pre.tx_stream_enabled
             \/ /\ start # {}
                /\ \A i \in start : call.log[i].status = 0

\* C15 witness: a transmit on an Idle TX stream whose lazy start was
\* accepted and whose transfer was refused with a hard error
C15_Witness ==
  /\ HardError
  /\ call.op = "send"
  /\ ~call.pre.tx_stream_enabled
  /\ handler.tx_stream_enabled

\* the empty handler slot
NoSlot == <<"NULL", "NULL">>

\* a call with a handler registered (a) and the same call with the slot
\* empty (b): a delivers at most one event, to slot; b delivers none and
\* ends as a does
SameButEvents(a, b, slot) ==
  /\ Len(a.events) <= 1
  /\ \A k \in DOMAIN a.events :
       a.events[k].handler = slot[1] /\ a.events[k].arg = slot[2]
  /\ b.events = <<>>
  /\ b.returns = a.returns
  /\ b.ret = a.ret

\* every transmit the session can make now, with slot and with the empty slot
SendSameWithoutHandler(slot) ==
  \A req \in TxShapes \cup
             {TxRequest(n, {}, FALSE, TRUE, TRUE) :
                n \in SampleCounts(handler.sample_size, handler.nof_tx_channels)} :
    \A sa \in LazyStartAnswers(handler), xa \in TxTransferAnswers, build \in TxBuilds(req) :
      LET ans == [start |-> sa, interleave |-> xa.interleave,
                  sync_tx |-> xa.sync_tx, meta_status |-> xa.meta_status]
      IN  SameButEvents(rf_blade_send_timed_multi(handler, module, slot, req, ans, build),
                        rf_blade_send_timed_multi(handler, module, NoSlot, req, ans, build),
                        slot)

\* every receive the session can make now, with slot and with the empty slot
RecvSameWithoutHandler(slot) ==
  \A req \in RxRequests(handler), build \in RxBuilds(handler) :
    \A ans \in RxTransferAnswers(Mul(req.nsamples, handler.nof_rx_channels)) :
      SameButEvents(rf_blade_recv_with_time_multi(handler, module, slot, req, ans, build),
                    rf_blade_recv_with_time_multi(handler, module, NoSlot, req, ans, build),
                    slot)

\* C16: the slot holds the latest registration (a register call leaves its
\* callback and context in the slot, no other call changes the slot); a
\* receive or transmit delivers each event it raises once, to the callback
\* in the slot with the context in the slot; with no callback in the slot
\* it delivers nothing and returns what it returns with a callback
C16_HandlerSlot ==
  /\ call.op = "register" =>
       <<blade_error_handler, blade_error_handler_arg>> = call.req
  /\ call.op \notin {"none", "register"} =>
       <<blade_error_handler, blade_error_handler_arg>> = call.slot
  /\ call.op \in {"send", "recv"} =>
       /\ Len(call.events) <= 1
       /\ \A k \in DOMAIN call.events :
            /\ call.events[k].handler = blade_error_handler
            /\ call.events[k].arg = blade_error_handler_arg
            /\ call.events[k].handler # "NULL"
  /\ (call.op = "none" /\ sess = "open" /\ blade_error_handler # "NULL") =>
       LET slot == <<blade_error_handler, blade_error_handler_arg>>
       IN  SendSameWithoutHandler(slot) /\ RecvSameWithoutHandler(slot)

\* C16 witness: an event delivered to the second callback with its context
C16_Witness ==
  /\ call.op \in {"send", "recv"}
  /\ Len(call.events) = 1
  /\ call.events[1].handler = "cb2"
  /\ call.events[1].arg = "ctx2"

\* C17 (as claimed): with the RX caller and the TX caller running
\* concurrently, nothing that one thread writes (a session field, a
\* hardware module, a scratch buffer) is read or written by the other, and
\* no transmit that read tx_stream_enabled as true issues its
\* bladerf_sync_tx with a TX module disabled
C17_NoSharedMutableState ==
  /\ \A t, u \in Threads :
       t # u =>
         \A a \in threads.acc[t], b \in threads.acc[u] : a[2] = "w" => a[1] # b[1]
  /\ ~threads.stale

\* C18: the metadata a transmit hands to bladerf_sync_tx has the
\* burst-start flag iff is_start_of_burst, the burst-end flag iff
\* is_end_of_burst, the TX_NOW flag iff is_start_of_burst without
\* has_time_spec, and the timestamp converted from the host time iff
\* is_start_of_burst with has_time_spec (the timestamp is 0 otherwise, so
\* a time given without is_start_of_burst is ignored)
C18_BurstMetadata ==
  call.op = "send" =>
    \A i \in At(call.log, "bladerf_sync_tx") :
      LET meta == call.log[i].arg[2]
          req  == call.req
      IN  /\ "BLADERF_META_FLAG_TX_BURST_START" \in meta.flags <=> req.is_start_of_burst
          /\ "BLADERF_META_FLAG_TX_BURST_END" \in meta.flags <=> req.is_end_of_burst
          /\ "BLADERF_META_FLAG_TX_NOW" \in meta.flags <=>
               (req.is_start_of_burst /\ ~req.has_time_spec)
          /\ meta.flags \subseteq {"BLADERF_META_FLAG_TX_BURST_START",
                                   "BLADERF_META_FLAG_TX_BURST_END",
                                   "BLADERF_META_FLAG_TX_NOW"}
          /\ meta.timestamp = "srsran_timestamp_uint64" <=>
               (req.is_start_of_burst /\ req.has_time_spec)
          /\ meta.timestamp \in {"srsran_timestamp_uint64", "0"}

\* C18 witness: a transfer of a transmit that carries a time but does not
\* start a burst
C18_Witness ==
  /\ call.op = "send"
  /\ At(call.log, "bladerf_sync_tx") # {}
  /\ call.req.has_time_spec
  /\ ~call.req.is_start_of_burst
  /\ call.req.is_end_of_burst

\* a byte count below 2^31 as a size_t
SizeT(n) == ZeroExt(IntToU32(n), 4)

\* C19: with 1 or 2 TX channels and either sample width, a transmit that
\* reaches the interleave has written every channel's slice of tx_buffer
\* once: channel i's slice starts at byte 2 * nsamples * i * sample_size
\* and is 2 * nsamples * sample_size bytes long; the slice of a channel
\* whose buffer is null is set to zero, and only the slices of such
\* channels are
C19_NullChannelIsSilence ==
  (/\ call.op = "send"
   /\ call.pre.nof_tx_channels \in {1, 2}
   /\ At(call.log, "bladerf_interleave_stream_buffer") # {})
  => LET n   == call.req.nsamples
         nch == call.pre.nof_tx_channels
         ss  == call.pre.sample_size
     IN  /\ Len(call.writes) = nch
         /\ \A i \in 0..(nch - 1) :
              LET w == call.writes[i + 1]
              IN  /\ w.ch = i
                  /\ w.off = SizeT(2 * n * i * ss)
                  /\ w.len = SizeT(2 * n * ss)
                  /\ w.op = "memset" <=> i \in call.req.null

\* C19 witness: a 16-bit transmit on 2 channels whose second buffer is null
C19_Witness ==
  /\ call.op = "send"
  /\ call.pre.nof_tx_channels = 2
  /\ call.pre.sample_size = 2
  /\ call.req.null = {1}
  /\ At(call.log, "bladerf_interleave_stream_buffer") # {}
  /\ call.writes[2].op = "memset"

\* what a start of direction dir asks of the transport when every request
\* is accepted: the sync configuration, then channel 1, then channel 2 when
\* the direction has 2 channels
ClaimedStartOrder(dir, nch) ==
  <<[fn |-> "bladerf_sync_config", ch |-> IF nch = 1 THEN dir \o "1" ELSE dir \o "2"],
    [fn |-> "bladerf_enable_module", ch |-> dir \o "1"]>> \o
  (IF nch = 2 THEN <<[fn |-> "bladerf_enable_module", ch |-> dir \o "2"]>> ELSE <<>>)

\* C20: a start configures the sync interface (256 buffers, 64 transfers,
\* 1000 ms) and only then enables the modules, channel 1 before channel 2,
\* channel 2 only with 2 channels; it stops at the first refusal; the flag
\* of its direction changes only when every step was accepted, and then it
\* becomes true.  When channel 2 is refused after channel 1 was accepted,
\* module 1 is left enabled and the flag is as it was.
C20_StartOrdering ==
  call.op \in {"start_rx", "start_tx"} =>
    LET rx    == call.op = "start_rx"
        dir   == IF rx THEN "BLADERF_RX_X" ELSE "BLADERF_TX_X"
        nch   == IF rx THEN call.pre.nof_rx_channels ELSE call.pre.nof_tx_channels
        flag(hd) == IF rx THEN hd.rx_stream_enabled ELSE hd.tx_stream_enabled
        order == ClaimedStartOrder(dir, nch)
        log   == call.log
        done  == Len(log) = Len(order) /\ Refused(log) = {}
    IN  /\ log # <<>>
        /\ Len(log) <= Len(order)
        /\ \A i \in DOMAIN log :
             /\ log[i].fn = order[i].fn
             /\ log[i].ch = order[i].ch
             /\ i < Len(log) => log[i].status = 0
        /\ log[1].arg[2] = 256 /\ log[1].arg[3] = 64 /\ log[1].arg[4] = 1000
        /\ \A i \in 2..Len(log) : log[i].arg = <<TRUE>>
        /\ Refused(log) = {} => Len(log) = Len(order)
        /\ flag(handler) = (flag(call.pre) \/ done)
        /\ done <=> call.ret = 0
        /\ (Len(log) = 3 /\ log[3].status # 0) =>
             /\ module[dir \o "1"]
             /\ flag(handler) = flag(call.pre)
             /\ call.ret = log[3].status

\* C20 witness: a start of an Idle RX direction with 2 channels, refused at
\* channel 2
C20_Witness ==
  /\ call.op = "start_rx"
  /\ ~call.pre.rx_stream_enabled
  /\ ~call.pre_module["BLADERF_RX_X1"]
  /\ Len(call.log) = 3
  /\ call.log[3].status # 0
  /\ module["BLADERF_RX_X1"]
  /\ ~handler.rx_stream_enabled

\* C21 (as claimed): an open that fails after bladerf_open has returned 0
\* closes the device before it returns: bladerf_close is called and no
\* device is left open
C21_FailedOpenClosesDevice ==
  (/\ call.op = "open"
   /\ call.ret # SRSRAN_SUCCESS
   /\ \E i \in At(call.log, "bladerf_open") : call.log[i].status = 0)
  => /\ At(call.log, "bladerf_close") # {}
     /\ dev # "open"

\* C22 (as claimed): a transmit issues bladerf_sync_tx only with
\* tx_stream_enabled true; a transmit whose lazy start is refused (at the
\* sync configuration or at a module enable) returns an error and makes
\* neither the interleave nor the transfer
C22_NoTransferOnFailedStart ==
  call.op = "send" =>
    LET start == At(call.log, "bladerf_sync_config") \cup
                 At(call.log, "bladerf_enable_module")
    IN  /\ At(call.log, "bladerf_sync_tx") # {} => handler.tx_stream_enabled
        /\ (\E i \in start : call.log[i].status # 0) =>
             /\ call.ret < 0
             /\ At(call.log, "bladerf_interleave_stream_buffer") = {}
             /\ At(call.log, "bladerf_sync_tx") = {}

\* the byte range [off, off + len) of a scratch buffer, off and len being
\* size_t, lies inside the CONVERT_BUFFER_SIZE bytes of the buffer
InsideScratch(off, len) ==
  /\ off[3] = 0 /\ off[4] = 0 /\ off[2] <= 4
  /\ len[3] = 0 /\ len[4] = 0 /\ len[2] <= 4
  /\ (off[2] + len[2]) * Limb + off[1] + len[1] <= 128 * 1024 * SizeofInt16

\* C23 (as claimed): for a receive that passes the capacity check, with 1
\* or 2 RX channels and an actual count not above the count asked of the
\* transport, the deinterleave is handed the number of samples the
\* transport delivered, and the bytes it rearranges, like the bytes of
\* every conversion, lie inside rx_buffer
C23_RxScratchBounds ==
  (/\ call.op = "recv"
   /\ call.returns
   /\ call.pre.nof_rx_channels \in {1, 2}
   /\ At(call.log, "bladerf_deinterleave_stream_buffer") # {}
   /\ ~Gt(call.meta.actual_count, call.log[1].arg[1]))
  => LET size  == IF call.pre.buffer_format = "BLADERF_FORMAT_SC8_Q7" THEN 1 ELSE SizeofInt16
         count == call.log[2].arg[2]
     IN  /\ count = call.meta.actual_count
         /\ InsideScratch(SizeT(0), Mul(ZeroExt(count, 4), 2 * size))
         /\ \A k \in Conversions(call.writes) :
              InsideScratch(call.writes[k].off, call.writes[k].len)


\* C24 (as claimed): the capacity check is exact over the whole argument
\* range: a receive is turned away by the check (it makes no transport call)
\* exactly when 2 * nsamples * sample_size * nof_rx_channels, as a number,
\* exceeds the capacity, for every uint32_t nsamples; and a transmit is
\* turned away (it never reaches the interleave) exactly when
\* 2 * nsamples * sample_size * nof_tx_channels, as a number, exceeds the
\* capacity, for every int nsamples, the negative ones included
C24_CapacityCheckIsExact ==
  /\ call.op = "recv"
     => ((call.log = <<>>)
           <=> ExceedsCapacityU32(call.req.nsamples, call.pre.sample_size,
                                  call.pre.nof_rx_channels))
  /\ call.op = "send"
     => ((At(call.log, "bladerf_interleave_stream_buffer") = {})
           <=> ExceedsCapacity(call.req.nsamples, call.pre.sample_size,
                               call.pre.nof_tx_channels))

=============================================================================
